---- MODULE Spec2Model ----
(***************************************************************************)
(* A model of dzcb's dmrconfig output filter (src/src/dzcb/output/         *)
(* dmrconfig.py) and of the channel name shortener (src/src/dzcb/munge.py).*)
(*                                                                         *)
(* Four specifications share the module:                                   *)
(*   SpecRange    items_by_index / items_to_range_tuples / format_ranges   *)
(*   SpecName     munge.channel_name and Table.name_munge                  *)
(*   SpecTemplate DmrConfigTemplate.read_template                          *)
(*   Spec         Dmrconfig_Codeplug: construction, then render            *)
(*                                                                         *)
(* Text is modelled at two grains.  Names are sequences of one-character   *)
(* strings, so that lengths, slices and substring replacement are those of *)
(* the code.  Template lines are sequences of tokens (a marker, a radio    *)
(* name, other text), so that str.partition and the "in" tests are         *)
(* decided by the position of the marker token in the line.                *)
(***************************************************************************)
EXTENDS Integers, Sequences, FiniteSets, TLC

VARIABLES
    \* SpecRange
    all_items,        \* the collection handed to items_by_index
    rng_offset,       \* the offset handed to items_by_index
    selected_items,   \* the items handed to items_to_range_tuples
    selected_ranges,  \* the tokens returned, once computed
    ranges_text,      \* format_ranges of the tokens, once computed
    rpc,              \* "idle" | "input" | "compressed" | "formatted"
    \* SpecName
    ch_name,          \* the name handed to channel_name / name_munge
    max_length,       \* the limit handed to channel_name
    name_radio,       \* the radio of the table that munges the name
    short_name,       \* channel_name's return value, once computed
    row_name,         \* the Name field of the row formatted from ch_name
    npc,              \* "idle" | "input" | "done"  (channel_name)
    mpc,              \* "idle" | "input" | "done"  (format_row)
    \* SpecTemplate and Spec
    template,         \* the template text: a sequence of lines, or None
    codeplug,         \* the dzcb.model.Codeplug handed to the Table
    offset,           \* the offset of the Table's CodeplugIndexLookup
    given_radio,      \* the radio handed to the constructor, or None
    t,                \* the DmrConfigTemplate read from the template, or None
    radio,            \* Dmrconfig_Codeplug.radio
    document,         \* the lines render_template returns, once rendered
    err,              \* the exception raised, or "none"
    pc                \* "idle" | "new" | "constructed" | "rendered" | "failed"

rangeVars == <<all_items, rng_offset, selected_items, selected_ranges, ranges_text, rpc>>
nameVars == <<ch_name, max_length, name_radio, short_name, row_name, npc, mpc>>
plugVars == <<template, codeplug, offset, given_radio, t, radio, document, err, pc>>
vars == <<rangeVars, nameVars, plugVars>>

None == "None"

\* ------------------------------------------------------------------------
\* Sequence helpers
\* ------------------------------------------------------------------------

Range(s) == {s[i] : i \in DOMAIN s}

Min(a, b) == IF a < b THEN a ELSE b

Max(a, b) == IF a > b THEN a ELSE b

\* All sequences over S of length at most n.
BoundedSeq(S, n) == UNION {[1..k -> S] : k \in 0..n}

\* Python's s[:n] for n >= 0.
Take(s, n) == SubSeq(s, 1, Min(n, Len(s)))

\* Python's s[-n:] for 0 < n.
LastN(s, n) == SubSeq(s, Max(1, Len(s) - n + 1), Len(s))

RECURSIVE Flatten(_)
Flatten(ss) == IF ss = <<>> THEN <<>> ELSE Head(ss) \o Flatten(Tail(ss))

\* ------------------------------------------------------------------------
\* Radio and the per-radio tables  (dmrconfig.py 26-87)
\* ------------------------------------------------------------------------

Radio == {"Anytone AT-D868UV", "BTECH DMR-6x2", "Radioddity GD-77",
          "TYT MD-UV380", "TYT MD-380", "Baofeng RD-5R"}

D868 == "Anytone AT-D868UV"
DMR6X2 == "BTECH DMR-6x2"
GD77 == "Radioddity GD-77"
MD_UV380 == "TYT MD-UV380"
MD_380 == "TYT MD-380"
RD5R == "Baofeng RD-5R"

\* A limit is <<low, high>>, or <<>> where the table holds None.
channel_limit(r) ==
    CASE r = D868 -> <<1, 4000>>
      [] r = DMR6X2 -> <<1, 4000>>
      [] r = RD5R -> <<1, 1024>>
      [] r = GD77 -> <<1, 1024>>
      [] r = MD_380 -> <<1, 1000>>
      [] r = MD_UV380 -> <<1, 3000>>

zone_limit(r) == <<1, 250>>

scanlist_limit(r) ==
    CASE r = RD5R -> <<>>
      [] r = GD77 -> <<1, 64>>
      [] OTHER -> <<1, 250>>

contact_limit(r) ==
    CASE r = RD5R -> <<1, 256>>
      [] r = GD77 -> <<1, 1024>>
      [] OTHER -> <<1, 10000>>

grouplist_limit(r) ==
    CASE r = RD5R -> <<1, 64>>
      [] r = GD77 -> <<1, 76>>
      [] OTHER -> <<1, 250>>

name_limit(r) == 16

\* ------------------------------------------------------------------------
\* items_by_index, items_to_range_tuples, format_ranges  (dmrconfig.py 126-177)
\* ------------------------------------------------------------------------

\* The keys of the dict: key(item) for every item of the collection.
IndexKeys(items) == Range(items)

\* items_by_index: a dict comprehension, so a key met twice keeps the index of
\* its last occurrence.  ix is 0-based in the code, 1-based in a TLA+ sequence.
items_by_index(items, off) ==
    [k \in IndexKeys(items) |->
        (CHOOSE i \in DOMAIN items :
            items[i] = k /\ \A j \in DOMAIN items : items[j] = k => j <= i) - 1 + off]

\* A Range token: <<n>> is the bare integer n, <<low, high>> the tuple.
IsTuple(tok) == Len(tok) = 2

\* The highest index a token stands for: previous_index after the unpacking.
PreviousIndex(tok) == tok[Len(tok)]

\* RangeStep with the gap test loosened: any larger index extends the token.
RangeStep_AnyLarger(ranges, selected_index) ==
    IF ranges = <<>>
    THEN <<<<selected_index>>>>
    ELSE LET last == ranges[Len(ranges)]
         IN IF PreviousIndex(last) < selected_index
            THEN [ranges EXCEPT ![Len(ranges)] = <<last[1], selected_index>>]
            ELSE Append(ranges, <<selected_index>>)

\* RangeStep without the unpacking: the new index is compared with the low end.
RangeStep_NoUnpack(ranges, selected_index) ==
    IF ranges = <<>>
    THEN <<<<selected_index>>>>
    ELSE LET last == ranges[Len(ranges)]
         IN IF last[1] + 1 = selected_index
            THEN [ranges EXCEPT ![Len(ranges)] = <<last[1], selected_index>>]
            ELSE Append(ranges, <<selected_index>>)

\* One pass of the loop body over selected_index.
RangeStep(ranges, selected_index) ==
    IF ranges = <<>>
    THEN <<<<selected_index>>>>
    ELSE LET last == ranges[Len(ranges)]
             low_index == last[1]
             previous_index == PreviousIndex(last)
         IN IF previous_index + 1 = selected_index
            THEN [ranges EXCEPT ![Len(ranges)] = <<low_index, selected_index>>]
            ELSE Append(ranges, <<selected_index>>)

RECURSIVE RangeLoop(_, _)
RangeLoop(ranges, indices) ==
    IF indices = <<>> THEN ranges
    ELSE RangeLoop(RangeStep(ranges, Head(indices)), Tail(indices))

\* The tuple of resolved indices the loop runs over; a missing key is a KeyError.
Resolvable(lookup, selected) == \A i \in DOMAIN selected : selected[i] \in DOMAIN lookup

ResolvedIndices(lookup, selected) == [i \in DOMAIN selected |-> lookup[selected[i]]]

items_to_range_tuples(lookup, selected) ==
    RangeLoop(<<>>, ResolvedIndices(lookup, selected))

FormatToken(tok) ==
    IF IsTuple(tok) THEN ToString(tok[1]) \o "-" \o ToString(tok[2])
    ELSE ToString(tok[1])

RECURSIVE format_ranges(_)
format_ranges(ranges) ==
    IF ranges = <<>> THEN ""
    ELSE IF Len(ranges) = 1 THEN FormatToken(ranges[1])
    ELSE FormatToken(ranges[1]) \o "," \o format_ranges(Tail(ranges))

\* ------------------------------------------------------------------------
\* munge.channel_name  (munge.py 7-39)  and  Table.name_munge  (dmrconfig.py 236-237)
\* ------------------------------------------------------------------------

\* The replacement dict in insertion order, each entry <<long, short>>.
Talkgroup_Channel_name_replacements ==
    <<
        <<<<"A","u","d","i","o"," ","T","e","s","t">>,
          <<"A",".","T","e","s","t">>>>,
        <<<<"C","a","l","i","f","o","r","n","i","a">>,
          <<"C","A">>>>,
        <<<<"E","n","g","l","i","s","h">>,
          <<"E","n","g">>>>,
        <<<<"H","a","w","a","i","i">>,
          <<"H","I">>>>,
        <<<<"I","d","a","h","o">>,
          <<"I","D">>>>,
        <<<<"M","o","n","t","a","n","a">>,
          <<"M","T">>>>,
        <<<<"N","o","r","t","h"," ","A","m","e","r","i","c","a">>,
          <<"N","A">>>>,
        <<<<"O","r","e","g","o","n">>,
          <<"O","R">>>>,
        <<<<"U","t","a","h">>,
          <<"U","T">>>>,
        <<<<"W","a","s","h","i","n","g","t","o","n">>,
          <<"W","A">>>>,
        <<<<"W","o","r","l","d","w","i","d","e">>,
          <<"W","W">>>>
    >>

\* str.replace(old, new): every non-overlapping occurrence, left to right.
RECURSIVE Replace(_, _, _)
Replace(s, old, new) ==
    IF Len(s) < Len(old) THEN s
    ELSE IF SubSeq(s, 1, Len(old)) = old
         THEN new \o Replace(SubSeq(s, Len(old) + 1, Len(s)), old, new)
         ELSE <<Head(s)>> \o Replace(Tail(s), old, new)

\* The while loop: dict.popitem() takes the entry inserted last.
RECURSIVE ReplaceLoop(_, _, _)
ReplaceLoop(name, replacements, limit) ==
    IF Len(name) > limit /\ replacements # <<>>
    THEN LET item == replacements[Len(replacements)]
         IN ReplaceLoop(Replace(name, item[1], item[2]),
                        SubSeq(replacements, 1, Len(replacements) - 1), limit)
    ELSE name

Upper == {"A", "B", "C", "D", "E", "F", "G", "H", "I", "J", "K", "L", "M",
          "N", "O", "P", "Q", "R", "S", "T", "U", "V", "W", "X", "Y", "Z"}

Whitespace == {" "}

\* Whether \s[A-Z]+$ matches at position i.
TailAt(s, i) ==
    /\ i < Len(s)
    /\ s[i] \in Whitespace
    /\ \A j \in (i + 1)..Len(s) : s[j] \in Upper

\* Whether [12]?\s[A-Z]+$ matches at position i.
TailCodeAt(s, i) ==
    \/ (i + 1 \in DOMAIN s /\ s[i] \in {"1", "2"} /\ TailAt(s, i + 1))
    \/ TailAt(s, i)

\* re.search: the leftmost position where the pattern matches, 0 for no match.
TailCodeStart(s) ==
    IF \E i \in DOMAIN s : TailCodeAt(s, i)
    THEN CHOOSE i \in DOMAIN s :
            TailCodeAt(s, i) /\ \A j \in DOMAIN s : TailCodeAt(s, j) => i <= j
    ELSE 0

\* TruncateMiddle without the tail-keeping branch: the name is left to the final slice.
TruncateMiddle_Plain(name, limit) == name

\* Lines 32-37: the truncation that keeps the tail code.
TruncateMiddle(name, limit) ==
    LET start == TailCodeStart(name)
        n_tail == Len(name) - start + 1
        n_trunc == Len(name) - limit
    IN IF Len(name) > limit /\ start # 0 /\ limit > n_tail + 1
       THEN SubSeq(name, 1, Len(name) - n_trunc - n_tail) \o LastN(name, n_tail)
       ELSE name

channel_name(name, limit) ==
    Take(TruncateMiddle(
            ReplaceLoop(name, Talkgroup_Channel_name_replacements, limit), limit),
         limit)

\* name_munge without the replacement of spaces.
name_munge_NoReplace(r, name) == Take(name, name_limit(r))

\* name[: name_limit[self.radio]].replace(" ", "_")
name_munge(r, name) == Replace(Take(name, name_limit(r)), <<" ">>, <<"_">>)

\* ------------------------------------------------------------------------
\* DmrConfigTemplate.read_template  (dmrconfig.py 502-540)
\* ------------------------------------------------------------------------

\* A template line is a sequence of tokens; these are the marker tokens.
RadioMarker == "Radio: "

\* str.lower() of a token.
Lower(tok) ==
    CASE tok = "Last Programmed Date" -> "last programmed date"
      [] tok = "CPS Software Version" -> "cps software version"
      [] OTHER -> tok

\* tline.partition("Radio: "): the position of the first marker, 0 for none.
MarkerPos(tline) ==
    IF \E i \in DOMAIN tline : tline[i] = RadioMarker
    THEN CHOOSE i \in DOMAIN tline :
            tline[i] = RadioMarker /\ \A j \in DOMAIN tline : tline[j] = RadioMarker => i <= j
    ELSE 0

RECURSIVE JoinTokens(_)
JoinTokens(toks) == IF toks = <<>> THEN "" ELSE Head(toks) \o JoinTokens(Tail(toks))

\* The third element of the partition: the text after the first marker.
RadioType(tline) == JoinTokens(SubSeq(tline, MarkerPos(tline) + 1, Len(tline)))

\* "last programmed date" in tline.lower() or "cps software version" in tline.lower()
IsMetadata(tline) ==
    \E i \in DOMAIN tline :
        Lower(tline[i]) \in {"last programmed date", "cps software version"}

\* cls(): empty header and footer, no radio.
NewTemplate == [header |-> <<>>, footer |-> <<>>, radio |-> None, err |-> "none"]

\* One pass of the loop body over tline.
ReadLine(tm, tline) ==
    IF tm.radio = None
    THEN IF MarkerPos(tline) # 0
         THEN IF RadioType(tline) \in Radio
              THEN [tm EXCEPT !.header = Append(@, tline), !.radio = RadioType(tline)]
              ELSE [tm EXCEPT !.header = Append(@, tline), !.err = "ValueError"]
         ELSE [tm EXCEPT !.header = Append(@, tline)]
    ELSE IF IsMetadata(tline)
         THEN [tm EXCEPT !.header = Append(@, tline)]
         ELSE [tm EXCEPT !.footer = Append(@, tline)]

RECURSIVE ReadLoop(_, _)
ReadLoop(tm, lines) ==
    IF lines = <<>> \/ tm.err # "none" THEN tm
    ELSE ReadLoop(ReadLine(tm, Head(lines)), Tail(lines))

\* The whole classmethod: the loop, the check for a radio, the blank line.
read_template(lines) ==
    LET tm == ReadLoop(NewTemplate, lines)
    IN IF tm.err # "none" THEN tm
       ELSE IF tm.radio = None THEN [tm EXCEPT !.err = "TemplateError"]
       ELSE [tm EXCEPT !.header = Append(@, <<>>)]

\* ------------------------------------------------------------------------
\* CodeplugIndexLookup and the six tables  (dmrconfig.py 180-492)
\*
\* A codeplug is [channels, contacts, grouplists, scanlists, zones], each a
\* sequence.  Channels and contacts are looked up by value in the code; here
\* each distinct value carries a distinct id, and the id is the dict key.
\*   channel   [id, kind, short_name, frequency, scanlist, grouplist, talkgroup]
\*   contact   [id, name, dmrid, timeslot]
\*   grouplist [_id, name, contacts]     contacts: contact ids
\*   scanlist  [_id, name, channels]     channels: channel ids
\*   zone      [name, unique_channels]   unique_channels: channel ids
\* ------------------------------------------------------------------------

Keys(items, field) == [i \in DOMAIN items |-> items[i][field]]

CodeplugIndexLookup(cp, off) ==
    [contact |-> items_by_index(Keys(cp.contacts, "id"), off),
     grouplist_id |-> items_by_index(Keys(cp.grouplists, "_id"), off),
     scanlist_id |-> items_by_index(Keys(cp.scanlists, "_id"), off),
     channel |-> items_by_index(Keys(cp.channels, "id"), off)]

\* dict.get(key, "-"), as the row's format prints it.
Get(lookup, key) == IF key \in DOMAIN lookup THEN ToString(lookup[key]) ELSE "-"

\* A line of the document.  Every line is a record of the same shape:
\*   kind  "template" | "stamp" | "docs" | "header" | "row"
\*   table the table the line belongs to, "" for template and stamp lines
\*   text  a template line's tokens; for a docs line the limit it prints
\*   num   a row's first column
\*   item  the key of the entity a row was formatted from
\*   Name, Receive, Scan, RxGL, TxContact, List: a row's other columns
BlankRow ==
    [kind |-> "row", table |-> "", text |-> <<>>, num |-> 0, item |-> None,
     Name |-> <<>>, Receive |-> 0, Scan |-> "", RxGL |-> "", TxContact |-> "",
     List |-> ""]

TemplateLine(tline) == [BlankRow EXCEPT !.kind = "template", !.text = tline]

StampLine == [BlankRow EXCEPT !.kind = "stamp"]

\* format_ranges([limit[radio]]); str(None) where the table holds None.
LimitText(limit) == IF limit = <<>> THEN "None" ELSE format_ranges(<<limit>>)

TableLimit(k, r) ==
    CASE k \in {"analog", "digital"} -> channel_limit(r)
      [] k = "contact" -> contact_limit(r)
      [] k = "grouplist" -> grouplist_limit(r)
      [] k = "scanlist" -> scanlist_limit(r)
      [] k = "zone" -> zone_limit(r)

\* Table.docs(): the doc string with the radio's limit filled in.
DocsLine(k, r) ==
    [BlankRow EXCEPT !.kind = "docs", !.table = k, !.text = <<LimitText(TableLimit(k, r))>>]

\* Table.header(): the column names.
HeaderLine(k) == [BlankRow EXCEPT !.kind = "header", !.table = k]

\* AnalogChannelTable.item_to_dict
AnalogRow(index, ch, idx, r) ==
    [BlankRow EXCEPT !.table = "analog", !.num = index, !.item = ch.id,
        !.Name = name_munge(r, ch.short_name),
        !.Receive = ch.frequency,
        !.Scan = Get(idx.scanlist_id, ch.scanlist)]

\* DigitalChannelTable.item_to_dict
DigitalRow(index, ch, idx, r) ==
    [BlankRow EXCEPT !.table = "digital", !.num = index, !.item = ch.id,
        !.Name = name_munge(r, ch.short_name),
        !.Receive = ch.frequency,
        !.Scan = Get(idx.scanlist_id, ch.scanlist),
        !.RxGL = Get(idx.grouplist_id, ch.grouplist),
        !.TxContact = Get(idx.contact, ch.talkgroup)]

\* ContactsTable.item_to_dict
ContactRow(index, contact, idx, r) ==
    [BlankRow EXCEPT !.table = "contact", !.num = index, !.item = contact.id,
        !.Name = name_munge(r, contact.name)]

\* GrouplistTable.item_to_dict
GrouplistRow(index, grouplist, idx, r) ==
    [BlankRow EXCEPT !.table = "grouplist", !.num = index, !.item = grouplist._id,
        !.Name = name_munge(r, grouplist.name),
        !.List = format_ranges(items_to_range_tuples(idx.contact, grouplist.contacts))]

\* ScanlistTable.item_to_dict
ScanlistRow(index, scanlist, idx, r) ==
    [BlankRow EXCEPT !.table = "scanlist", !.num = index, !.item = scanlist._id,
        !.Name = name_munge(r, scanlist.name),
        !.List = format_ranges(items_to_range_tuples(idx.channel, scanlist.channels))]

\* ZoneTable.item_to_dict
ZoneRow(index, zone, idx, r) ==
    [BlankRow EXCEPT !.table = "zone", !.num = index, !.item = None,
        !.Name = name_munge(r, zone.name),
        !.List = format_ranges(items_to_range_tuples(idx.channel, zone.unique_channels))]

\* The collection a table iterates over (object_name; channels for both channel tables).
Items(cp, k) ==
    CASE k \in {"analog", "digital"} -> cp.channels
      [] k = "contact" -> cp.contacts
      [] k = "grouplist" -> cp.grouplists
      [] k = "scanlist" -> cp.scanlists
      [] k = "zone" -> cp.zones

\* The filter of AnalogChannelTable.__iter__ and DigitalChannelTable.__iter__;
\* Table.__iter__ yields every item.
Yields(k, item) ==
    CASE k = "analog" -> item.kind = "analog"
      [] k = "digital" -> item.kind = "digital" /\ item.talkgroup # None
      [] OTHER -> TRUE

\* format_row(ix + 1, item): ix is 0-based in the code, i 1-based here.
FormatRow(k, i, item, idx, r) ==
    CASE k = "analog" -> AnalogRow(i, item, idx, r)
      [] k = "digital" -> DigitalRow(i, item, idx, r)
      [] k = "contact" -> ContactRow(i, item, idx, r)
      [] k = "grouplist" -> GrouplistRow(i, item, idx, r)
      [] k = "scanlist" -> ScanlistRow(i, item, idx, r)
      [] k = "zone" -> ZoneRow(i, item, idx, r)

\* Whether formatting the item raises KeyError: items_to_range_tuples indexes
\* the lookup with [], every other reference goes through dict.get.
RaisesKeyError(k, item, idx) ==
    CASE k = "grouplist" -> ~Resolvable(idx.contact, item.contacts)
      [] k = "scanlist" -> ~Resolvable(idx.channel, item.channels)
      [] k = "zone" -> ~Resolvable(idx.channel, item.unique_channels)
      [] OTHER -> FALSE

\* tuple(table): the rows __iter__ yields for items lo..hi, in collection order
\* (the loop is unrolled by halves, which keeps the evaluation shallow).
RECURSIVE RowsFrom(_, _, _, _, _, _)
RowsFrom(k, lo, hi, items, idx, r) ==
    IF lo > hi THEN <<>>
    ELSE IF lo = hi
         THEN IF Yields(k, items[lo]) THEN <<FormatRow(k, lo, items[lo], idx, r)>> ELSE <<>>
         ELSE LET mid == (lo + hi) \div 2
              IN RowsFrom(k, lo, mid, items, idx, r) \o RowsFrom(k, mid + 1, hi, items, idx, r)

TableRows(k, cp, idx, r) == RowsFrom(k, 1, Len(Items(cp, k)), Items(cp, k), idx, r)

TableRaises(k, cp, idx) ==
    \E i \in DOMAIN Items(cp, k) :
        Yields(k, Items(cp, k)[i]) /\ RaisesKeyError(k, Items(cp, k)[i], idx)

\* ------------------------------------------------------------------------
\* Dmrconfig_Codeplug  (dmrconfig.py 543-609)
\* ------------------------------------------------------------------------

\* TableOrder with the contact and group list tables exchanged.
TableOrder_GrouplistFirst ==
    <<"analog", "digital", "grouplist", "contact", "scanlist", "zone">>

\* The order in which render() concatenates the tables.
TableOrder == <<"analog", "digital", "contact", "grouplist", "scanlist", "zone">>

\* docs(), header() and the rows of one table.
TableBlock(k, cp, idx, r) == <<DocsLine(k, r), HeaderLine(k)>> \o TableRows(k, cp, idx, r)

\* render(): the version comment, then the six blocks.
render(cp, idx, r) ==
    <<StampLine>> \o Flatten([n \in DOMAIN TableOrder |-> TableBlock(TableOrder[n], cp, idx, r)])

RenderRaises(cp, idx) == \E n \in DOMAIN TableOrder : TableRaises(TableOrder[n], cp, idx)

TemplateLines(lines) == [i \in DOMAIN lines |-> TemplateLine(lines[i])]

\* render_template(): header + render() + footer, joined by newlines.
render_template(tm, cp, idx, r) ==
    TemplateLines(tm.header) \o render(cp, idx, r) \o TemplateLines(tm.footer)

\* ------------------------------------------------------------------------
\* Bounds and inputs
\* ------------------------------------------------------------------------

\* SpecRange: the size of the indexed collection and of the selection.
NItems == 5
MaxSel == 4

\* SpecName: the number of parts a name body is built from, the largest limit.
MaxParts == 2
MaxLimit == 7

\* SpecTemplate: the number of lines of a template.
MaxLines == 4

\* Spec: the number of channels of a codeplug.
MaxChannels == 2

\* Sequences over S of length at most n without a repeated element.
InjectiveSeq(S, n) ==
    {s \in BoundedSeq(S, n) : \A i, j \in DOMAIN s : s[i] = s[j] => i = j}

\* --- SpecRange
AllItemsOrders == {[i \in 1..NItems |-> i], [i \in 1..NItems |-> NItems + 1 - i]}

Offsets == {0, 1}

\* --- SpecName
BodyParts == {<<"N","o","r","t","h"," ","A","m","e","r","i","c","a">>,
              <<"O","r","e","g","o","n">>,
              <<"a">>, <<" ">>}

Digits == {<<>>, <<"1">>, <<"2">>, <<"3">>}

Tails == {<<>>, <<" ", "B">>, <<" ", "A", "B", "C">>, <<" ", "b">>}

NameInputs ==
    {Flatten(b) \o d \o tl : b \in BoundedSeq(BodyParts, MaxParts), d \in Digits, tl \in Tails}

\* --- SpecTemplate
LineComment == <<"# written by hand">>
LineRadio == <<RadioMarker, MD_380>>
LineRadioInComment == <<"# ", RadioMarker, RD5R>>
LineRadioUnknown == <<RadioMarker, "TYT MD-390">>
LineDate == <<"Last Programmed Date", ": 2021-01-01">>
LineCps == <<"# ", "CPS Software Version", ": V1.07">>
LineBody == <<"Intro Line 1: hello">>
LineEmpty == <<>>

TemplateLinePool ==
    {LineComment, LineRadio, LineRadioInComment, LineRadioUnknown,
     LineDate, LineCps, LineBody, LineEmpty}

\* --- Spec
NameA == <<"A">>
NameZone == <<"Z","o","n","e"," ","1">>
NameLong == <<"N","o","r","t","h"," ","A","m","e","r","i","c","a"," ","1"," ","W","A">>

Contact1 == [id |-> "t1", name |-> NameA, dmrid |-> 3100, timeslot |-> 1]
Contact2 == [id |-> "t2", name |-> NameLong, dmrid |-> 3141, timeslot |-> 2]

Analog1 ==
    [id |-> "a1", kind |-> "analog", short_name |-> NameA, frequency |-> 146,
     scanlist |-> None, grouplist |-> None, talkgroup |-> None]
Analog2 ==
    [id |-> "a2", kind |-> "analog", short_name |-> NameLong, frequency |-> 147,
     scanlist |-> "s1", grouplist |-> None, talkgroup |-> None]
Digital1 ==
    [id |-> "d1", kind |-> "digital", short_name |-> NameZone, frequency |-> 440,
     scanlist |-> None, grouplist |-> "g1", talkgroup |-> "t1"]
Digital2 ==
    [id |-> "d2", kind |-> "digital", short_name |-> NameA, frequency |-> 441,
     scanlist |-> None, grouplist |-> None, talkgroup |-> None]
Digital3 ==
    [id |-> "d3", kind |-> "digital", short_name |-> NameA, frequency |-> 442,
     scanlist |-> "s1", grouplist |-> "g1", talkgroup |-> "t2"]

ChannelPool == {Analog1, Analog2, Digital1, Digital2, Digital3}

ContactChoices == {<<>>, <<Contact1>>, <<Contact1, Contact2>>}

Grouplist(ids) == [_id |-> "g1", name |-> NameZone, contacts |-> ids]

GrouplistChoices == {<<>>, <<Grouplist(<<"t1">>)>>, <<Grouplist(<<"t1", "t2">>)>>}

Scanlist(ids) == [_id |-> "s1", name |-> NameLong, channels |-> ids]

Zone(ids) == [name |-> NameZone, unique_channels |-> ids]

Reverse(s) == [i \in DOMAIN s |-> s[Len(s) + 1 - i]]

\* The member lists a scan list or a zone is given: every channel of the
\* codeplug in order, the same reversed, or one channel whatever the codeplug holds.
MemberChoices(channels) ==
    {Keys(channels, "id"), Reverse(Keys(channels, "id")), <<"a1">>}

CodeplugsOver(chs) ==
    {[channels |-> chs, contacts |-> cts, grouplists |-> gls,
      scanlists |-> sls, zones |-> zs] :
        cts \in ContactChoices,
        gls \in GrouplistChoices,
        sls \in {<<>>} \cup {<<Scanlist(m)>> : m \in MemberChoices(chs)},
        zs \in {<<>>} \cup {<<Zone(m)>> : m \in MemberChoices(chs)}}

SmallCodeplugs == UNION {CodeplugsOver(chs) : chs \in InjectiveSeq(ChannelPool, MaxChannels)}

\* A codeplug of n analog channels and nothing else.
ManyChannels(n) ==
    [channels |-> [i \in 1..n |->
        [id |-> ToString(i), kind |-> "analog", short_name |-> NameA, frequency |-> i,
         scanlist |-> None, grouplist |-> None, talkgroup |-> None]],
     contacts |-> <<>>, grouplists |-> <<>>, scanlists |-> <<>>, zones |-> <<>>]

\* One more channel than the radio's upper channel limit.
FullCodeplugs == {ManyChannels(channel_limit(MD_380)[2] + 1)}

TemplateGood == <<LineComment, LineRadio, LineDate, LineBody, LineEmpty>>
TemplateNoRadio == <<LineComment, LineBody>>
TemplateUnknownRadio == <<LineComment, LineRadioUnknown, LineBody>>

\* What Dmrconfig_Codeplug and its Table are constructed with.  An absent
\* template or radio (None) is the empty sequence, a given one a sequence of one.
Setups ==
    {[template |-> <<TemplateGood>>, radio |-> <<>>, offset |-> 1],
     [template |-> <<TemplateGood>>, radio |-> <<>>, offset |-> 0],
     [template |-> <<>>, radio |-> <<RD5R>>, offset |-> 1],
     [template |-> <<>>, radio |-> <<>>, offset |-> 1],
     [template |-> <<TemplateNoRadio>>, radio |-> <<>>, offset |-> 1],
     [template |-> <<TemplateUnknownRadio>>, radio |-> <<GD77>>, offset |-> 1]}

\* ------------------------------------------------------------------------
\* SpecRange: index a collection, compress a selection, format the tokens
\* ------------------------------------------------------------------------

RangeIdle ==
    /\ all_items = <<>> /\ rng_offset = 0 /\ selected_items = <<>>
    /\ selected_ranges = <<>> /\ ranges_text = "" /\ rpc = "idle"

NameIdle ==
    /\ ch_name = <<>> /\ max_length = 0 /\ name_radio = None
    /\ short_name = <<>> /\ row_name = <<>> /\ npc = "idle" /\ mpc = "idle"

PlugIdle ==
    /\ template = <<>> /\ codeplug = ManyChannels(0) /\ offset = 1
    /\ given_radio = <<>> /\ t = <<>> /\ radio = <<>>
    /\ document = <<>> /\ err = "none" /\ pc = "idle"

InitRange ==
    /\ all_items \in AllItemsOrders
    /\ rng_offset \in Offsets
    /\ selected_items \in BoundedSeq(1..NItems, MaxSel)
    /\ selected_ranges = <<>>
    /\ ranges_text = ""
    /\ rpc = "input"
    /\ NameIdle
    /\ PlugIdle

\* The Index Lookup of the run.
Lookup == items_by_index(all_items, rng_offset)

\* items_to_range_tuples(lookup, selected_items)
Compress ==
    /\ rpc = "input"
    /\ selected_ranges' = items_to_range_tuples(Lookup, selected_items)
    /\ rpc' = "compressed"
    /\ UNCHANGED <<all_items, rng_offset, selected_items, ranges_text, nameVars, plugVars>>

\* format_ranges(tokens)
Format ==
    /\ rpc = "compressed"
    /\ ranges_text' = format_ranges(selected_ranges)
    /\ rpc' = "formatted"
    /\ UNCHANGED <<all_items, rng_offset, selected_items, selected_ranges, nameVars, plugVars>>

NextRange == Compress \/ Format

SpecRange == InitRange /\ [][NextRange]_vars

\* ------------------------------------------------------------------------
\* SpecName: shorten a name with channel_name, format a row that carries it
\* ------------------------------------------------------------------------

InitName ==
    /\ ch_name \in NameInputs
    /\ max_length \in 1..MaxLimit
    /\ name_radio = None
    /\ short_name = <<>>
    /\ row_name = <<>>
    /\ npc = "input"
    /\ mpc = "input"
    /\ RangeIdle
    /\ PlugIdle

\* channel_name(ch_name, max_length)
ChannelName ==
    /\ npc = "input"
    /\ short_name' = channel_name(ch_name, max_length)
    /\ npc' = "done"
    /\ UNCHANGED <<ch_name, max_length, name_radio, row_name, mpc, rangeVars, plugVars>>

\* An item of table k whose display name is name, referring to nothing.
ItemNamed(k, name) ==
    CASE k = "analog" -> [Analog1 EXCEPT !.short_name = name]
      [] k = "digital" -> [Digital1 EXCEPT !.short_name = name]
      [] k = "contact" -> [Contact1 EXCEPT !.name = name]
      [] k = "grouplist" -> [_id |-> "g1", name |-> name, contacts |-> <<>>]
      [] k = "scanlist" -> [_id |-> "s1", name |-> name, channels |-> <<>>]
      [] k = "zone" -> [name |-> name, unique_channels |-> <<>>]

\* Table.format_row of an item named ch_name, by a table of any kind for any radio.
FormatName ==
    /\ mpc = "input"
    /\ \E r \in Radio, k \in Range(TableOrder) :
        /\ row_name' = FormatRow(k, 1, ItemNamed(k, ch_name),
                                 CodeplugIndexLookup(ManyChannels(0), 1), r).Name
        /\ name_radio' = r
    /\ mpc' = "done"
    /\ UNCHANGED <<ch_name, max_length, short_name, npc, rangeVars, plugVars>>

NextName == ChannelName \/ FormatName

SpecName == InitName /\ [][NextName]_vars

\* ------------------------------------------------------------------------
\* SpecTemplate: read a template
\* ------------------------------------------------------------------------

InitTemplate ==
    /\ template \in {<<lines>> : lines \in BoundedSeq(TemplateLinePool, MaxLines)}
    /\ codeplug = ManyChannels(0)
    /\ offset = 1
    /\ given_radio = <<>>
    /\ t = <<>>
    /\ radio = <<>>
    /\ document = <<>>
    /\ err = "none"
    /\ pc = "text"
    /\ RangeIdle
    /\ NameIdle

\* DmrConfigTemplate.read_template(template)
ReadTemplate ==
    /\ pc = "text"
    /\ LET tm == read_template(template[1])
       IN IF tm.err # "none"
          THEN /\ t' = <<>>
               /\ err' = tm.err
               /\ pc' = "failed"
          ELSE /\ t' = <<tm>>
               /\ err' = "none"
               /\ pc' = "parsed"
    /\ UNCHANGED <<template, codeplug, offset, given_radio, radio, document, rangeVars, nameVars>>

NextTemplate == ReadTemplate

SpecTemplate == InitTemplate /\ [][NextTemplate]_vars

\* ------------------------------------------------------------------------
\* Spec: construct a Dmrconfig_Codeplug, then render it
\* ------------------------------------------------------------------------

Init ==
    /\ \E s \in Setups :
        /\ template = s.template
        /\ given_radio = s.radio
        /\ offset = s.offset
        /\ \/ codeplug \in SmallCodeplugs
           \/ s.template = <<TemplateGood>> /\ s.offset = 1 /\ codeplug \in FullCodeplugs
    /\ t = <<>>
    /\ radio = <<>>
    /\ document = <<>>
    /\ err = "none"
    /\ pc = "new"
    /\ RangeIdle
    /\ NameIdle

\* Table.index: the lookup the six tables share (evolve_from copies it).
index == CodeplugIndexLookup(codeplug, offset)

\* Dmrconfig_Codeplug(table, template, radio): the converter reads the template,
\* radio defaults to the template's, and each evolved Table validates the radio.
Construct ==
    /\ pc = "new"
    /\ LET tm == IF template = <<>> THEN <<>> ELSE <<read_template(template[1])>>
           rd == IF given_radio # <<>> THEN given_radio
                 ELSE IF tm # <<>> THEN <<tm[1].radio>> ELSE <<>>
       IN IF tm # <<>> /\ tm[1].err # "none"
          THEN /\ t' = <<>> /\ radio' = <<>>
               /\ err' = tm[1].err
               /\ pc' = "failed"
          ELSE IF rd = <<>>
          THEN /\ t' = tm /\ radio' = <<>>
               /\ err' = "TypeError"
               /\ pc' = "failed"
          ELSE /\ t' = tm /\ radio' = rd
               /\ err' = "none"
               /\ pc' = "constructed"
    /\ UNCHANGED <<template, codeplug, offset, given_radio, document, rangeVars, nameVars>>

\* Dmrconfig_Codeplug.render(): the tuple of lines, or the KeyError of a table.
Render ==
    /\ pc = "constructed"
    /\ IF RenderRaises(codeplug, index)
       THEN /\ document' = <<>>
            /\ err' = "KeyError"
            /\ pc' = "failed"
       ELSE /\ document' = render(codeplug, index, radio[1])
            /\ err' = "none"
            /\ pc' = "rendered"
    /\ UNCHANGED <<template, codeplug, offset, given_radio, t, radio, rangeVars, nameVars>>

\* Dmrconfig_Codeplug.render_template(): needs a template (self.template.header).
RenderTemplate ==
    /\ pc = "constructed"
    /\ IF t = <<>>
       THEN /\ document' = <<>>
            /\ err' = "AttributeError"
            /\ pc' = "failed"
       ELSE IF RenderRaises(codeplug, index)
       THEN /\ document' = <<>>
            /\ err' = "KeyError"
            /\ pc' = "failed"
       ELSE /\ document' = render_template(t[1], codeplug, index, radio[1])
            /\ err' = "none"
            /\ pc' = "rendered_template"
    /\ UNCHANGED <<template, codeplug, offset, given_radio, t, radio, rangeVars, nameVars>>

Next == Construct \/ Render \/ RenderTemplate

Spec == Init /\ [][Next]_vars

\* ------------------------------------------------------------------------
\* Properties of the range compressor  (SpecRange)
\* ------------------------------------------------------------------------

\* The indices a token stands for: n, or low, low+1, ..., high.
ExpandToken(tok) ==
    IF IsTuple(tok) THEN [i \in 1..(tok[2] - tok[1] + 1) |-> tok[1] + i - 1] ELSE <<tok[1]>>

Expand(ranges) == Flatten([i \in DOMAIN ranges |-> ExpandToken(ranges[i])])

Distinct(s) == \A i, j \in DOMAIN s : s[i] = s[j] => i = j

Resolved == ResolvedIndices(Lookup, selected_items)

Compressed == rpc \in {"compressed", "formatted"}

\* C2: when the resolved indices of the selection are distinct, expanding the
\* returned tokens left to right and concatenating gives back exactly the
\* sequence of resolved indices, in the input order.
C2_RoundTrip ==
    (Compressed /\ Distinct(Resolved)) => Expand(selected_ranges) = Resolved

\* A selection of distinct indices that compresses to a range followed by more.
C2_Witness ==
    /\ Compressed
    /\ Distinct(Resolved)
    /\ Len(selected_ranges) >= 2
    /\ IsTuple(selected_ranges[1])
    /\ Expand(selected_ranges) = Resolved

\* The number of input indices the tokens before token i stand for.
RECURSIVE Before(_, _)
Before(ranges, i) ==
    IF i = 1 THEN 0 ELSE Before(ranges, i - 1) + Len(ExpandToken(ranges[i - 1]))

\* The slice of the input that token i stands for.
Slice(ranges, i) ==
    SubSeq(Resolved, Before(ranges, i) + 1, Before(ranges, i) + Len(ExpandToken(ranges[i])))

\* C10: the tokens are minimal for the input order: a pair has low < high and
\* stands for a run of inputs each one greater than its predecessor, running
\* from low to high; no token starts at one more than the highest value of the
\* token before it; and indices [1,2,3,5] give [(1,3), 5], formatted "1-3,5".
C10_Minimal ==
    Compressed =>
        /\ \A i \in DOMAIN selected_ranges :
            LET tok == selected_ranges[i]
                run == Slice(selected_ranges, i)
            IN /\ IsTuple(tok) => tok[1] < tok[2]
               /\ Len(run) = PreviousIndex(tok) - tok[1] + 1
               /\ run[1] = tok[1]
               /\ run[Len(run)] = PreviousIndex(tok)
               /\ \A n \in 2..Len(run) : run[n] = run[n - 1] + 1
        /\ \A i \in 2..Len(selected_ranges) :
            selected_ranges[i][1] # PreviousIndex(selected_ranges[i - 1]) + 1
        /\ (Resolved = <<1, 2, 3, 5>>) => selected_ranges = << <<1, 3>>, <<5>> >>
        /\ (rpc = "formatted" /\ Resolved = <<1, 2, 3, 5>>) => ranges_text = "1-3,5"

\* The spec's scenario: indices [1,2,3,5], compressed and formatted.
C10_Witness ==
    /\ rpc = "formatted"
    /\ Resolved = <<1, 2, 3, 5>>
    /\ ranges_text = "1-3,5"

\* ------------------------------------------------------------------------
\* Properties of the name normalizer  (SpecName)
\* ------------------------------------------------------------------------

DecimalDigits == {"0", "1", "2", "3", "4", "5", "6", "7", "8", "9"}

\* The number of uppercase letters the name ends with.
RECURSIVE TrailingUpper(_)
TrailingUpper(name) ==
    IF name = <<>> \/ name[Len(name)] \notin Upper THEN 0
    ELSE 1 + TrailingUpper(SubSeq(name, 1, Len(name) - 1))

\* The length of the tail code the name ends in, 0 when it ends in none: one
\* space and 1 to 3 uppercase letters, with the digit before the space when
\* there is one among digits.
TailLength(name, digits) ==
    LET k == TrailingUpper(name)
        sp == Len(name) - k
    IN IF k \in 1..3 /\ sp >= 1 /\ name[sp] = " "
       THEN IF sp >= 2 /\ name[sp - 1] \in digits THEN k + 2 ELSE k + 1
       ELSE 0

EndsWith(s, suffix) == Len(s) >= Len(suffix) /\ LastN(s, Len(suffix)) = suffix

\* The name channel_name truncates: ch_name after the replacement loop.
Replaced == ReplaceLoop(ch_name, Talkgroup_Channel_name_replacements, max_length)

\* Whether the result is what was before the tail code, cut short, then the tail code.
KeepsTail(n) ==
    /\ EndsWith(short_name, LastN(ch_name, n))
    /\ SubSeq(short_name, 1, Len(short_name) - n)
         = Take(SubSeq(Replaced, 1, Len(Replaced) - n), Len(short_name) - n)

\* C7 as stated: a name longer than max_length that ends in a tail code (any
\* single digit counted in) keeps that tail code whenever max_length is at
\* least the length of the tail code plus one.
C7_TailKept_AsStated ==
    LET n == TailLength(ch_name, DecimalDigits)
    IN (npc = "done" /\ n > 0 /\ Len(ch_name) > max_length /\ max_length >= n + 1)
          => KeepsTail(n)

\* C7 amended: the digit belongs to the tail code only when it is 1 or 2, and
\* max_length must be at least the length of the tail code plus two; then the
\* result ends with exactly the tail code and only what is before it is cut.
C7_TailKept ==
    LET n == TailLength(ch_name, {"1", "2"})
    IN (npc = "done" /\ n > 0 /\ Len(ch_name) > max_length /\ max_length >= n + 2)
          => KeepsTail(n)

\* A name with a digit in its tail code, still too long after the
\* replacements, whose middle was cut.
C7_Witness ==
    LET n == TailLength(ch_name, {"1", "2"})
    IN /\ npc = "done"
       /\ n >= 3 /\ ch_name[Len(ch_name) - n + 1] \in {"1", "2"}
       /\ max_length >= n + 2
       /\ Len(Replaced) > max_length
       /\ Replaced # ch_name
       /\ KeepsTail(n)

\* C9: channel_name(s, L) has at most L characters for L >= 1; the Name field
\* of a row has at most name_limit[radio] characters, holds no space, and is
\* the source name cut to that length with every space replaced by '_'.
C9_NameLimit ==
    /\ (npc = "done" /\ max_length >= 1) => Len(short_name) <= max_length
    /\ mpc = "done" =>
        /\ Len(row_name) <= name_limit(name_radio)
        /\ Len(row_name) = Min(Len(ch_name), name_limit(name_radio))
        /\ \A i \in DOMAIN row_name :
            /\ row_name[i] # " "
            /\ row_name[i] = IF ch_name[i] = " " THEN "_" ELSE ch_name[i]

\* A name longer than both limits, with a space in the part that is kept.
C9_Witness ==
    /\ npc = "done" /\ mpc = "done"
    /\ Len(ch_name) > name_limit(name_radio)
    /\ Len(ch_name) > max_length
    /\ \E i \in 1..name_limit(name_radio) : ch_name[i] = " "
    /\ Len(short_name) = max_length
    /\ Len(row_name) = name_limit(name_radio)

\* ------------------------------------------------------------------------
\* Properties of the template reader  (SpecTemplate)
\* ------------------------------------------------------------------------

HasMarker(tline) == MarkerPos(tline) # 0

\* The first line that holds the radio marker, 0 when no line does.
FirstRadioLine(lines) ==
    IF \E i \in DOMAIN lines : HasMarker(lines[i])
    THEN CHOOSE i \in DOMAIN lines :
            HasMarker(lines[i]) /\ \A j \in DOMAIN lines : HasMarker(lines[j]) => i <= j
    ELSE 0

\* The last line of the unbroken run of metadata lines that follows line r.
RECURSIVE RunEnd(_, _)
RunEnd(lines, r) ==
    IF r + 1 \in DOMAIN lines /\ IsMetadata(lines[r + 1]) THEN RunEnd(lines, r + 1) ELSE r

\* C4: read_template is the scanner seeking-radio -> metadata -> footer with
\* no way back: the header is the lines up to the first radio line and the
\* unbroken run of metadata lines right after it (then the blank line the
\* reader appends); every later line, metadata or not, is in the footer, in order.
C4_ThreeStates ==
    pc = "parsed" =>
        LET lines == template[1]
            last == RunEnd(lines, FirstRadioLine(lines))
        IN /\ t[1].header = Append(SubSeq(lines, 1, last), <<>>)
           /\ t[1].footer = SubSeq(lines, last + 1, Len(lines))

\* ------------------------------------------------------------------------
\* Properties of construction and rendering  (Spec)
\* ------------------------------------------------------------------------

Rendered == pc \in {"rendered", "rendered_template"}

\* The positions of the document's lines of one kind and table.
Positions(kind, table) ==
    {i \in DOMAIN document : document[i].kind = kind /\ document[i].table = table}

RowsOf(tables) ==
    {i \in DOMAIN document : document[i].kind = "row" /\ document[i].table \in tables}

\* The tables whose rows count against the limit of table k.
SameLimit(k) == IF k \in {"analog", "digital"} THEN {"analog", "digital"} ELSE {k}

\* C1: no document is rendered in which the rows of an entity kind outnumber
\* the upper limit the radio's limit table gives for that kind.
C1_CapacityEnforced ==
    Rendered =>
        \A n \in DOMAIN TableOrder :
            LET limit == TableLimit(TableOrder[n], radio[1])
            IN limit # <<>> => Cardinality(RowsOf(SameLimit(TableOrder[n]))) <= limit[2]

\* The channel a channel row was formatted from.
ChannelOf(row) ==
    CHOOSE ch \in Range(codeplug.channels) : ch.id = row.item

\* C3: a document is rendered only when every non-null reference of a rendered
\* entity is a key of its lookup: '-' stands for a null reference only, and
\* every member of a zone, scan list or group list resolves.
C3_UnresolvedFails ==
    Rendered =>
        /\ \A i \in RowsOf({"analog", "digital"}) :
            document[i].Scan = "-" => ChannelOf(document[i]).scanlist = None
        /\ \A i \in RowsOf({"digital"}) :
            /\ document[i].RxGL = "-" => ChannelOf(document[i]).grouplist = None
            /\ document[i].TxContact = "-" => ChannelOf(document[i]).talkgroup = None
        /\ \A n \in DOMAIN codeplug.zones :
            Resolvable(index.channel, codeplug.zones[n].unique_channels)
        /\ \A n \in DOMAIN codeplug.scanlists :
            Resolvable(index.channel, codeplug.scanlists[n].channels)
        /\ \A n \in DOMAIN codeplug.grouplists :
            Resolvable(index.contact, codeplug.grouplists[n].contacts)

\* The lookup that assigns the rows of table k their index; zones have none.
LookupOf(k) ==
    CASE k \in {"analog", "digital"} -> index.channel
      [] k = "contact" -> index.contact
      [] k = "grouplist" -> index.grouplist_id
      [] k = "scanlist" -> index.scanlist_id

\* C6: the number in a row's first column is the index the table's lookup
\* assigns to the row's entity, whatever the lookup's offset.
C6_RowNumberIsIndex ==
    Rendered =>
        \A i \in RowsOf({"analog", "digital", "contact", "grouplist", "scanlist"}) :
            document[i].num = LookupOf(document[i].table)[document[i].item]

\* Whether the template text makes read_template fail: no line holds the
\* marker, or the first that does names no radio of the enumeration.
TemplateUnusable(lines) ==
    \/ FirstRadioLine(lines) = 0
    \/ RadioType(lines[FirstRadioLine(lines)]) \notin Radio

\* C8: a template with no radio line, or whose first radio line names an
\* unknown radio, makes construction fail with a TemplateError, with no
\* template object and nothing rendered.
C8_TemplateError ==
    (pc # "new" /\ template # <<>> /\ TemplateUnusable(template[1])) =>
        /\ pc = "failed"
        /\ err = "TemplateError"
        /\ t = <<>>
        /\ document = <<>>

\* The order of the tables in the document, as the spec lists them.
DocumentOrder == <<"analog", "digital", "contact", "grouplist", "scanlist", "zone">>

\* The only position of a set of one position, 0 otherwise.
Only(S) == IF Cardinality(S) = 1 THEN CHOOSE i \in S : TRUE ELSE 0

DocsAt(k) == Only(Positions("docs", k))

\* Where the block of the n-th table ends: before the next table's
\* documentation (and its version comment, if it has one), or at the footer.
BlockEnd(n) ==
    IF n = Len(DocumentOrder) THEN Len(document) - Len(t[1].footer)
    ELSE LET next == DocsAt(DocumentOrder[n + 1])
         IN IF next > 1 /\ document[next - 1].kind = "stamp" THEN next - 2 ELSE next - 1

\* The positions, in the collection, of the items table k yields a row for.
Qualifying(k) == {i \in DOMAIN Items(codeplug, k) : Yields(k, Items(codeplug, k)[i])}

\* The layout common to the claim and its amendment: header, six blocks in
\* order, each the documentation block, the column header line and then one
\* row per qualifying item in collection order, then the footer unchanged.
Layout ==
    LET H == Len(t[1].header)
        F == Len(t[1].footer)
    IN /\ SubSeq(document, 1, H) = TemplateLines(t[1].header)
       /\ SubSeq(document, Len(document) - F + 1, Len(document)) = TemplateLines(t[1].footer)
       /\ \A i \in (H + 1)..(Len(document) - F) : document[i].kind # "template"
       /\ \A n \in DOMAIN DocumentOrder :
            LET k == DocumentOrder[n]
                d == DocsAt(k)
            IN /\ d > H
               /\ n > 1 => DocsAt(DocumentOrder[n - 1]) < d
               /\ Positions("header", k) = {d + 1}
               /\ Positions("row", k) = (d + 2)..BlockEnd(n)
               /\ {document[i].num : i \in Positions("row", k)} = Qualifying(k)
               /\ \A i, j \in Positions("row", k) :
                    i < j => document[i].num < document[j].num

\* C5 as stated: every one of the six blocks begins with its own
\* version-stamped comment line.
C5_StampPerBlock ==
    pc = "rendered_template" =>
        /\ Layout
        /\ \A n \in DOMAIN DocumentOrder :
            document[DocsAt(DocumentOrder[n]) - 1].kind = "stamp"

\* C5 amended: the document has one version-stamped comment line, the first
\* line after the header; the six blocks follow it in the fixed order, each
\* the documentation block, the column header and the rows; then the footer.
C5_OneStamp ==
    pc = "rendered_template" =>
        /\ Layout
        /\ {i \in DOMAIN document : document[i].kind = "stamp"} = {Len(t[1].header) + 1}
        /\ DocsAt("analog") = Len(t[1].header) + 2

\* A document with header, footer and at least one row in each of the six tables.
C5_Witness ==
    /\ pc = "rendered_template"
    /\ Len(t[1].header) > 1 /\ Len(t[1].footer) > 0
    /\ \A n \in DOMAIN DocumentOrder : Positions("row", DocumentOrder[n]) # {}
    /\ Layout

\* The members of the zone or scan list that a row of table k was formatted from.
MembersOf(row) ==
    IF row.table = "zone" THEN codeplug.zones[row.num].unique_channels
    ELSE codeplug.scanlists[row.num].channels

\* The channel numbers the Channels column of a zone or scan list row names.
ListedNumbers(row) == Range(Expand(items_to_range_tuples(index.channel, MembersOf(row))))

\* C11: in a document rendered with the Table's default lookup (offset 1),
\* every channel number in the Channels list of a zone row or a scan list row
\* is the number of exactly one row of the analog or the digital channel
\* table, and no number is used by both tables.
C11_ListedChannelsAreRows ==
    (Rendered /\ offset = 1) =>
        /\ \A i \in RowsOf({"zone", "scanlist"}) :
            /\ document[i].List
                 = format_ranges(items_to_range_tuples(index.channel, MembersOf(document[i])))
            /\ \A n \in ListedNumbers(document[i]) :
                Cardinality({j \in RowsOf({"analog", "digital"}) : document[j].num = n}) = 1
        /\ \A i \in RowsOf({"analog"}) : \A j \in RowsOf({"digital"}) :
            document[i].num # document[j].num

====
